---- MODULE Spec2Model ----
(***************************************************************************)
(* A model of the in-memory B-tree of sqlite-btree-analysis (src/btree.c). *)
(* The heap of nodes is a function from node ids to node records; C arrays *)
(* are functions over 0..n-1 so that the indices of the source are kept.   *)
(* The entries of a C array past num_keys are never read by the code and   *)
(* are not kept in the model.                                              *)
(***************************************************************************)
EXTENDS Integers, Sequences, FiniteSets, TLC

VARIABLES
    nodes,          \* heap: node id -> struct btree_node
    root,           \* tree->root
    order,          \* tree->order
    min_keys,       \* tree->min_keys
    stats,          \* tree->stats
    collect_stats,  \* tree->collect_stats
    cursor,         \* the struct btree_cursor created against the tree
    last,           \* the last call made and what it returned
    inserted,       \* history: keys passed to insert since create/clear
    lastval,        \* history: value passed by the latest insert of each key
    ninserts,       \* history: number of insert calls since create/clear
    removed,        \* history: keys for which delete returned ok since create/clear
    nqueries,       \* history: number of search and delete calls since create/clear
    yielded,        \* history: keys read by cursor_get since cursor_first
    iterating       \* history: TRUE while the cursor walks on from cursor_first

vars == <<nodes, root, order, min_keys, stats, collect_stats, cursor, last,
          inserted, lastval, ninserts, removed, nqueries, yielded, iterating>>

(* ------------------------------ bounds --------------------------------- *)
MaxOrder == 5
MaxKey == 4
MaxValue == 2
MaxInserts == 5
MaxDistinct == 7
MaxQueries == 2
MaxOpsInserts == 4
MaxStatsInserts == 3
MaxStatsQueries == 1
MaxAvail == 1
MaxShapeKey == 3
MaxShapeLen == 3
MaxShapeRootKeys == 1
MaxSearchKey == 5
MaxSearchLen == 4
MaxCursorInserts == 3

Orders == 3..MaxOrder
Keys == 1..MaxKey
Values == 1..MaxValue
DistinctKeys == 1..MaxDistinct
Probes == 0..MaxKey

(* ----------------------- constants of btree.h -------------------------- *)
BTREE_MIN_ORDER == 3
BTREE_MAX_ORDER == 1024
BTREE_OK == 0
BTREE_ERROR_NOMEM == -1
BTREE_ERROR_NOT_FOUND == -2
BTREE_ERROR_INVALID == -4
CURSOR_MAX_DEPTH == 64
NULL == 0

\* a C array of n elements is a function over 0..(n - 1); the empty array
EmptyArr == [i \in {} |-> 0]

(* ------------------------------ nodes ---------------------------------- *)
\* node_create: a fresh node with no keys; T.avail is the number of node
\* allocations that still succeed (-1: all of them).
node_create(T, is_leaf) ==
    IF T.avail = 0
    THEN [node |-> NULL, T |-> T]
    ELSE LET id == Cardinality(DOMAIN T.nodes) + 1
             n  == [keys |-> EmptyArr, values |-> EmptyArr, children |-> EmptyArr,
                    num_keys |-> 0, is_leaf |-> is_leaf]
         IN [node |-> id,
             T |-> [T EXCEPT !.nodes = (id :> n) @@ T.nodes,
                             !.avail = IF T.avail > 0 THEN T.avail - 1 ELSE T.avail]]

\* node_binary_search: the loop, from the bounds lwr..upr on; returns the
\* index, the found flag and the number of comparisons made.
RECURSIVE bsearch_loop(_, _, _, _, _)
bsearch_loop(node, key, lwr, upr, cmps) ==
    IF lwr <= upr
    THEN LET mid == (lwr + upr) \div 2
         IN IF node.keys[mid] < key
            THEN bsearch_loop(node, key, mid + 1, upr, cmps + 1)
            ELSE IF node.keys[mid] > key
                 THEN bsearch_loop(node, key, lwr, mid - 1, cmps + 1)
                 ELSE [pos |-> mid, found |-> TRUE, cmps |-> cmps + 1]
    ELSE [pos |-> lwr, found |-> FALSE, cmps |-> cmps]

\* node_binary_search gone wrong: the upper bound starts one slot short
node_binary_search_short(node, key) == bsearch_loop(node, key, 0, node.num_keys - 2, 0)

node_binary_search(node, key) == bsearch_loop(node, key, 0, node.num_keys - 1, 0)

\* the comparisons counter gone wrong: it is passed whatever collect_stats is
count_search_ungated(T, r) == [T EXCEPT !.stats.comparisons = @ + r.cmps]

\* the comparisons counter is passed to the search only when collect_stats
count_search(T, r) ==
    IF collect_stats
    THEN [T EXCEPT !.stats.comparisons = @ + r.cmps]
    ELSE T

\* the visit counter gone wrong: a visit is booked on the stored height
count_visit_as_height(T) ==
    IF collect_stats
    THEN [T EXCEPT !.stats.height = @ + 1]
    ELSE T

count_visit(T) ==
    IF collect_stats
    THEN [T EXCEPT !.stats.node_visits = @ + 1]
    ELSE T

(* ------------------------------ insert --------------------------------- *)
\* split_child: uint32_t mid = (order - 1) / 2
split_mid == (order - 1) \div 2

\* split_child gone wrong: the new sibling is always created as a leaf
split_right_always_leaf(c) ==
    LET mid == split_mid
        n   == c.num_keys - mid - 1
    IN [keys     |-> [i \in 0..(n - 1) |-> c.keys[mid + 1 + i]],
        values   |-> [i \in 0..(n - 1) |-> IF c.is_leaf THEN c.values[mid + 1 + i]
                                                    ELSE NULL],
        children |-> EmptyArr,
        num_keys |-> n,
        is_leaf  |-> TRUE]

\* split_child: the new right sibling, holding the keys of child above mid
split_right(c) ==
    LET mid == split_mid
        n   == c.num_keys - mid - 1
    IN [keys     |-> [i \in 0..(n - 1) |-> c.keys[mid + 1 + i]],
        values   |-> IF c.is_leaf THEN [i \in 0..(n - 1) |-> c.values[mid + 1 + i]]
                                  ELSE EmptyArr,
        children |-> IF ~c.is_leaf THEN [i \in 0..n |-> c.children[mid + 1 + i]]
                                   ELSE EmptyArr,
        num_keys |-> n,
        is_leaf  |-> c.is_leaf]

\* split_child gone wrong: child->num_keys = mid - 1, the key below the
\* promoted one is dropped
split_left_drops_key(c) ==
    LET mid == split_mid
    IN [keys     |-> [i \in 0..(mid - 2) |-> c.keys[i]],
        values   |-> IF c.is_leaf THEN [i \in 0..(mid - 2) |-> c.values[i]]
                                  ELSE EmptyArr,
        children |-> IF ~c.is_leaf THEN [i \in 0..(mid - 1) |-> c.children[i]]
                                   ELSE EmptyArr,
        num_keys |-> mid - 1,
        is_leaf  |-> c.is_leaf]

\* split_child: child->num_keys = mid
split_left(c) ==
    LET mid == split_mid
    IN [keys     |-> [i \in 0..(mid - 1) |-> c.keys[i]],
        values   |-> IF c.is_leaf THEN [i \in 0..(mid - 1) |-> c.values[i]] ELSE EmptyArr,
        children |-> IF ~c.is_leaf THEN [i \in 0..mid |-> c.children[i]]
                                   ELSE EmptyArr,
        num_keys |-> mid,
        is_leaf  |-> c.is_leaf]

\* split_child gone wrong: the new child pointer is stored at child_idx, in
\* front of the child that was split
split_parent_new_child_first(p, child_idx, new_node, promoted) ==
    [p EXCEPT
       !.children = [i \in 0..(p.num_keys + 1) |-> IF i < child_idx THEN p.children[i]
                                   ELSE IF i = child_idx THEN new_node
                                   ELSE p.children[i - 1]],
       !.keys     = [i \in 0..p.num_keys |-> IF i < child_idx THEN p.keys[i]
                                   ELSE IF i = child_idx THEN promoted
                                   ELSE p.keys[i - 1]],
       !.num_keys = p.num_keys + 1]

\* split_child: the parent after the new child pointer and the promoted key
\* are shifted in at child_idx + 1 and child_idx
split_parent(p, child_idx, new_node, promoted) ==
    [p EXCEPT
       !.children = [i \in 0..(p.num_keys + 1) |-> IF i <= child_idx THEN p.children[i]
                                   ELSE IF i = child_idx + 1 THEN new_node
                                   ELSE p.children[i - 1]],
       !.keys     = [i \in 0..p.num_keys |-> IF i < child_idx THEN p.keys[i]
                                   ELSE IF i = child_idx THEN promoted
                                   ELSE p.keys[i - 1]],
       !.num_keys = p.num_keys + 1]

\* split_child gone wrong: the new sibling is not counted in node_count
split_child_uncounted(T, parent, child_idx, child) ==
    LET a == node_create(T, T.nodes[child].is_leaf)
    IN IF a.node = NULL
       THEN [status |-> BTREE_ERROR_NOMEM, T |-> a.T]
       ELSE LET c == a.T.nodes[child]
                p == a.T.nodes[parent]
                newnodes == [a.T.nodes EXCEPT
                               ![a.node] = split_right(c),
                               ![child]  = split_left(c),
                               ![parent] = split_parent(p, child_idx, a.node,
                                                        c.keys[split_mid])]
            IN [status |-> BTREE_OK,
                T |-> [a.T EXCEPT !.nodes = newnodes,
                                  !.stats.splits = @ + 1]]

split_child(T, parent, child_idx, child) ==
    LET a == node_create(T, T.nodes[child].is_leaf)
    IN IF a.node = NULL
       THEN [status |-> BTREE_ERROR_NOMEM, T |-> a.T]
       ELSE LET c == a.T.nodes[child]
                p == a.T.nodes[parent]
                newnodes == [a.T.nodes EXCEPT
                               ![a.node] = split_right(c),
                               ![child]  = split_left(c),
                               ![parent] = split_parent(p, child_idx, a.node,
                                                        c.keys[split_mid])]
            IN [status |-> BTREE_OK,
                T |-> [a.T EXCEPT !.nodes = newnodes,
                                  !.stats.node_count = @ + 1,
                                  !.stats.splits = @ + 1]]

\* insert_nonfull gone wrong: a new key is counted but not stored
leaf_put_forgets(n, pos, key, value) == n

\* insert_nonfull, leaf branch: overwrite on a match, else shift and store
leaf_put(n, pos, key, value) ==
    [n EXCEPT
       !.keys   = [i \in 0..n.num_keys |-> IF i < pos THEN n.keys[i]
                                 ELSE IF i = pos THEN key ELSE n.keys[i - 1]],
       !.values = [i \in 0..n.num_keys |-> IF i < pos THEN n.values[i]
                                 ELSE IF i = pos THEN value ELSE n.values[i - 1]],
       !.num_keys = n.num_keys + 1]

\* insert_nonfull gone wrong: a matching key returns ok without the update
leaf_update_keeps_old(n, pos, value) == n

\* insert_nonfull, leaf branch: node->values[pos] = value on a match
leaf_update(n, pos, value) == [n EXCEPT !.values[pos] = value]

\* insert_nonfull, internal branch: if (found) pos++
descend_pos(r) == IF r.found THEN r.pos + 1 ELSE r.pos

\* insert_nonfull, internal branch: if (key > node->keys[pos]) pos++
after_split_pos(n, pos, key) == IF key > n.keys[pos] THEN pos + 1 ELSE pos

RECURSIVE insert_nonfull(_, _, _, _)
insert_nonfull(T0, node, key, value) ==
    LET T1 == count_visit(T0)
        n  == T1.nodes[node]
        r  == node_binary_search(n, key)
        T2 == count_search(T1, r)
    IN IF n.is_leaf
       THEN IF r.found
            THEN [status |-> BTREE_OK,
                  T |-> [T2 EXCEPT !.nodes[node] = leaf_update(n, r.pos, value)]]
            ELSE [status |-> BTREE_OK,
                  T |-> [T2 EXCEPT !.nodes[node] = leaf_put(n, r.pos, key, value),
                                   !.stats.key_count = @ + 1]]
       ELSE LET pos == descend_pos(r)
            IN IF T2.nodes[n.children[pos]].num_keys = order - 1
               THEN LET s == split_child(T2, node, pos, n.children[pos])
                    IN IF s.status # BTREE_OK
                       THEN s
                       ELSE LET n2   == s.T.nodes[node]
                                pos2 == after_split_pos(n2, pos, key)
                            IN insert_nonfull(s.T, n2.children[pos2], key, value)
               ELSE insert_nonfull(T2, n.children[pos], key, value)

\* btree_insert gone wrong: the full root is entered without being split
grow_root_no_split(T) == [status |-> BTREE_OK, T |-> T]

\* btree_insert, the special case of a full root
grow_root(T) ==
    LET a == node_create(T, FALSE)
    IN IF a.node = NULL
       THEN [status |-> BTREE_ERROR_NOMEM, T |-> a.T]
       ELSE LET T1 == [a.T EXCEPT !.nodes[a.node].children = [i \in 0..0 |-> T.root],
                                  !.root = a.node,
                                  !.stats.node_count = @ + 1,
                                  !.stats.height = @ + 1]
            IN split_child(T1, a.node, 0, T.root)

\* btree_insert gone wrong: insert_ops is counted whatever collect_stats is
btree_insert_always_counts(T, key, value) ==
    IF T.root = NULL
    THEN [status |-> BTREE_ERROR_INVALID, T |-> T]
    ELSE LET T1 == [T EXCEPT !.stats.insert_ops = @ + 1]
         IN IF T1.nodes[T1.root].num_keys = order - 1
            THEN LET g == grow_root(T1)
                 IN IF g.status # BTREE_OK
                    THEN g
                    ELSE insert_nonfull(g.T, g.T.root, key, value)
            ELSE insert_nonfull(T1, T1.root, key, value)

btree_insert(T, key, value) ==
    IF T.root = NULL
    THEN [status |-> BTREE_ERROR_INVALID, T |-> T]
    ELSE LET T1 == IF collect_stats
                   THEN [T EXCEPT !.stats.insert_ops = @ + 1]
                   ELSE T
         IN IF T1.nodes[T1.root].num_keys = order - 1
            THEN LET g == grow_root(T1)
                 IN IF g.status # BTREE_OK
                    THEN g
                    ELSE insert_nonfull(g.T, g.T.root, key, value)
            ELSE insert_nonfull(T1, T1.root, key, value)

(* ------------------------------ search --------------------------------- *)
\* btree_search: the descent loop; out is the caller's slot (NULL: none
\* given, or nothing written)
RECURSIVE search_loop(_, _, _, _)
search_loop(T0, node, key, want_value) ==
    IF node = NULL
    THEN [status |-> BTREE_ERROR_NOT_FOUND, written |-> FALSE, value |-> NULL,
          in_leaf |-> FALSE, T |-> T0]
    ELSE LET T1 == count_visit(T0)
             n  == T1.nodes[node]
             r  == node_binary_search(n, key)
             T2 == count_search(T1, r)
         IN IF r.found
            THEN [status |-> BTREE_OK,
                  written |-> want_value /\ n.is_leaf,
                  value |-> IF want_value /\ n.is_leaf THEN n.values[r.pos] ELSE NULL,
                  in_leaf |-> n.is_leaf, T |-> T2]
            ELSE IF n.is_leaf
                 THEN [status |-> BTREE_ERROR_NOT_FOUND, written |-> FALSE,
                       value |-> NULL, in_leaf |-> FALSE, T |-> T2]
                 ELSE search_loop(T2, n.children[r.pos], key, want_value)

btree_search(T, key, want_value) ==
    IF T.root = NULL
    THEN [status |-> BTREE_ERROR_INVALID, written |-> FALSE, value |-> NULL,
          in_leaf |-> FALSE, T |-> T]
    ELSE LET T1 == IF collect_stats
                   THEN [T EXCEPT !.stats.search_ops = @ + 1]
                   ELSE T
         IN search_loop(T1, T1.root, key, want_value)

btree_contains(T, key) == btree_search(T, key, FALSE).status = BTREE_OK

(* ------------------------------ delete --------------------------------- *)
\* a uint64_t counter is held as the integer of least magnitude congruent to
\* it modulo 2^64: the holder -1 stands for 2^64 - 1
\* btree_delete gone wrong: key_count is decremented on a miss too
btree_delete_always_decrements(T, key) ==
    LET T1 == IF collect_stats
              THEN [T EXCEPT !.stats.delete_ops = @ + 1]
              ELSE T
        s  == btree_search(T1, key, TRUE)
    IN [status |-> s.status,
        T |-> [s.T EXCEPT !.stats.key_count = @ - 1]]

\* btree_delete: a search, and key_count-- on a hit
btree_delete(T, key) ==
    LET T1 == IF collect_stats
              THEN [T EXCEPT !.stats.delete_ops = @ + 1]
              ELSE T
        s  == btree_search(T1, key, TRUE)
    IN IF s.status = BTREE_OK
       THEN [status |-> BTREE_OK,
             T |-> [s.T EXCEPT !.stats.key_count = @ - 1]]
       ELSE [status |-> s.status, T |-> s.T]

(* ---------------------------- diagnostics ------------------------------ *)
RECURSIVE calculate_height(_, _)
calculate_height(ns, node) ==
    IF node = NULL THEN 0
    ELSE IF ns[node].is_leaf THEN 1
    ELSE 1 + calculate_height(ns, ns[node].children[0])

btree_height(T) == calculate_height(T.nodes, T.root)

btree_size(T) == T.stats.key_count

\* validate_node gone wrong: equal neighbours pass the sortedness check
RECURSIVE validate_node_allows_equal(_, _, _, _, _, _, _)
validate_node_allows_equal(ns, node, mink, maxk, min_key, max_key, is_root) ==
    IF node = NULL THEN TRUE
    ELSE LET n == ns[node]
         IN IF ~is_root /\ n.num_keys < mink THEN FALSE
            ELSE IF n.num_keys > maxk THEN FALSE
            ELSE IF \E i \in 1..(n.num_keys - 1) : n.keys[i] < n.keys[i - 1] THEN FALSE
            ELSE IF n.num_keys > 0 /\ min_key # <<>> /\ n.keys[0] <= min_key[1] THEN FALSE
            ELSE IF n.num_keys > 0 /\ max_key # <<>> /\ n.keys[n.num_keys - 1] >= max_key[1]
                 THEN FALSE
            ELSE IF ~n.is_leaf
                 THEN \A i \in 0..n.num_keys :
                        validate_node_allows_equal(ns, n.children[i], mink, maxk,
                                      IF i = 0 THEN min_key ELSE <<n.keys[i - 1]>>,
                                      IF i = n.num_keys THEN max_key ELSE <<n.keys[i]>>,
                                      FALSE)
                 ELSE TRUE

\* validate_node; min_key and max_key are <<>> for a null pointer, <<k>> else
RECURSIVE validate_node(_, _, _, _, _, _, _)
validate_node(ns, node, mink, maxk, min_key, max_key, is_root) ==
    IF node = NULL THEN TRUE
    ELSE LET n == ns[node]
         IN IF ~is_root /\ n.num_keys < mink THEN FALSE
            ELSE IF n.num_keys > maxk THEN FALSE
            ELSE IF \E i \in 1..(n.num_keys - 1) : n.keys[i] <= n.keys[i - 1] THEN FALSE
            ELSE IF n.num_keys > 0 /\ min_key # <<>> /\ n.keys[0] <= min_key[1] THEN FALSE
            ELSE IF n.num_keys > 0 /\ max_key # <<>> /\ n.keys[n.num_keys - 1] >= max_key[1]
                 THEN FALSE
            ELSE IF ~n.is_leaf
                 THEN \A i \in 0..n.num_keys :
                        validate_node(ns, n.children[i], mink, maxk,
                                      IF i = 0 THEN min_key ELSE <<n.keys[i - 1]>>,
                                      IF i = n.num_keys THEN max_key ELSE <<n.keys[i]>>,
                                      FALSE)
                 ELSE TRUE

btree_validate(T) ==
    IF T.root = NULL THEN FALSE
    ELSE validate_node(T.nodes, T.root, min_keys, order - 1, <<>>, <<>>, TRUE)

(* ---------------------------- statistics ------------------------------- *)
\* calculate_fill_factor: the keys and the capacity of the children of n from
\* index i on, then of the subtree of node, added to the totals in acc
RECURSIVE fill_children(_, _, _, _, _)
RECURSIVE calculate_fill_factor(_, _, _, _)
fill_children(ns, n, i, max_keys, acc) ==
    IF i > n.num_keys THEN acc
    ELSE fill_children(ns, n, i + 1, max_keys,
                       calculate_fill_factor(ns, n.children[i], max_keys, acc))

calculate_fill_factor(ns, node, max_keys, acc) ==
    IF node = NULL THEN acc
    ELSE LET n  == ns[node]
             a1 == [total_keys |-> acc.total_keys + n.num_keys,
                    total_capacity |-> acc.total_capacity + max_keys]
         IN IF ~n.is_leaf THEN fill_children(ns, n, 0, max_keys, a1) ELSE a1

\* btree_stats_reset gone wrong: key_count is not put back after the memset
btree_stats_reset_loses_key_count(T) ==
    [T EXCEPT !.stats = [node_count |-> T.stats.node_count, key_count |-> 0,
                         height |-> T.stats.height, comparisons |-> 0,
                         node_visits |-> 0, splits |-> 0, merges |-> 0,
                         search_ops |-> 0, insert_ops |-> 0, delete_ops |-> 0,
                         avg_fill_factor |-> 0]]

\* btree_stats_reset: memset to 0, with node_count, key_count, height kept
btree_stats_reset(T) ==
    [T EXCEPT !.stats = [node_count |-> T.stats.node_count,
                         key_count |-> T.stats.key_count,
                         height |-> T.stats.height, comparisons |-> 0,
                         node_visits |-> 0, splits |-> 0, merges |-> 0,
                         search_ops |-> 0, insert_ops |-> 0, delete_ops |-> 0,
                         avg_fill_factor |-> 0]]

\* btree_stats_get gone wrong: the capacity of a node is taken to be order
btree_stats_get_capacity_order(T) ==
    LET f == calculate_fill_factor(T.nodes, T.root, order,
                                   [total_keys |-> 0, total_capacity |-> 0])
    IN [T.stats EXCEPT
          !.height = calculate_height(T.nodes, T.root),
          !.avg_fill_factor = IF f.total_capacity > 0
                              THEN [num |-> f.total_keys, den |-> f.total_capacity]
                              ELSE [num |-> 0, den |-> 1]]

\* btree_stats_get: the copy returned; the double avg_fill_factor is held as
\* the quotient total_keys / total_capacity, 0 / 1 for 0.0
btree_stats_get(T) ==
    LET f == calculate_fill_factor(T.nodes, T.root, order - 1,
                                   [total_keys |-> 0, total_capacity |-> 0])
    IN [T.stats EXCEPT
          !.height = calculate_height(T.nodes, T.root),
          !.avg_fill_factor = IF f.total_capacity > 0
                              THEN [num |-> f.total_keys, den |-> f.total_capacity]
                              ELSE [num |-> 0, den |-> 1]]

(* ------------------------------ cursor --------------------------------- *)
\* btree_cursor_create
cursor_create ==
    [path      |-> [d \in 0..(CURSOR_MAX_DEPTH - 1) |-> NULL],
     positions |-> [d \in 0..(CURSOR_MAX_DEPTH - 1) |-> 0],
     depth     |-> -1,
     max_depth |-> CURSOR_MAX_DEPTH,
     valid     |-> FALSE]

\* btree_cursor_first: the descent to the leftmost leaf
RECURSIVE first_descend(_, _)
first_descend(ns, c) ==
    IF ns[c.path[c.depth]].is_leaf THEN c
    ELSE first_descend(ns,
           [c EXCEPT !.depth = c.depth + 1,
                     !.path[c.depth + 1] = ns[c.path[c.depth]].children[0],
                     !.positions[c.depth + 1] = 0])

\* btree_cursor_first gone wrong: an empty leaf counts as a position
btree_cursor_first_on_empty(T, c) ==
    IF T.root = NULL
    THEN [status |-> BTREE_ERROR_INVALID, c |-> c]
    ELSE LET c0 == [c EXCEPT !.depth = 0, !.path[0] = T.root, !.positions[0] = 0]
             c1 == first_descend(T.nodes, c0)
             v  == T.nodes[c1.path[c1.depth]].num_keys >= 0
         IN [status |-> IF v THEN BTREE_OK ELSE BTREE_ERROR_NOT_FOUND,
             c |-> [c1 EXCEPT !.valid = v]]

btree_cursor_first(T, c) ==
    IF T.root = NULL
    THEN [status |-> BTREE_ERROR_INVALID, c |-> c]
    ELSE LET c0 == [c EXCEPT !.depth = 0, !.path[0] = T.root, !.positions[0] = 0]
             c1 == first_descend(T.nodes, c0)
             v  == T.nodes[c1.path[c1.depth]].num_keys > 0
         IN [status |-> IF v THEN BTREE_OK ELSE BTREE_ERROR_NOT_FOUND,
             c |-> [c1 EXCEPT !.valid = v]]

\* btree_cursor_last gone wrong: the descent does not record the child
\* index it takes
RECURSIVE last_descend_unrecorded(_, _)
last_descend_unrecorded(ns, c) ==
    IF ns[c.path[c.depth]].is_leaf THEN c
    ELSE LET n == ns[c.path[c.depth]]
         IN last_descend_unrecorded(ns,
              [c EXCEPT !.depth = c.depth + 1,
                        !.path[c.depth + 1] = n.children[n.num_keys]])

\* btree_cursor_last: the descent to the rightmost leaf
RECURSIVE last_descend(_, _)
last_descend(ns, c) ==
    IF ns[c.path[c.depth]].is_leaf THEN c
    ELSE LET n == ns[c.path[c.depth]]
         IN last_descend(ns,
              [c EXCEPT !.positions[c.depth] = n.num_keys,
                        !.depth = c.depth + 1,
                        !.path[c.depth + 1] = n.children[n.num_keys]])

\* (uint32_t)0 - 1 stored in an int is -1 on the two's complement targets
btree_cursor_last(T, c) ==
    IF T.root = NULL
    THEN [status |-> BTREE_ERROR_INVALID, c |-> c]
    ELSE LET c0 == [c EXCEPT !.depth = 0, !.path[0] = T.root]
             c1 == last_descend(T.nodes, c0)
             c2 == [c1 EXCEPT !.positions[c1.depth] =
                                  T.nodes[c1.path[c1.depth]].num_keys - 1]
             v  == c2.positions[c2.depth] >= 0
         IN [status |-> IF v THEN BTREE_OK ELSE BTREE_ERROR_NOT_FOUND,
             c |-> [c2 EXCEPT !.valid = v]]

\* btree_cursor_next: the descent to the leftmost leaf of the right subtree
RECURSIVE next_descend(_, _)
next_descend(ns, c) ==
    IF ns[c.path[c.depth]].is_leaf THEN c
    ELSE next_descend(ns,
           [c EXCEPT !.depth = c.depth + 1,
                     !.path[c.depth + 1] =
                         ns[c.path[c.depth]].children[c.positions[c.depth]],
                     !.positions[c.depth + 1] = 0])

\* btree_cursor_next: the loop that moves up
RECURSIVE next_up(_, _)
next_up(ns, c) ==
    IF c.depth > 0
    THEN LET c1 == [c EXCEPT !.depth = c.depth - 1,
                             !.positions[c.depth - 1] = @ + 1]
         IN IF c1.positions[c1.depth] <= ns[c1.path[c1.depth]].num_keys
            THEN [status |-> BTREE_OK, c |-> next_descend(ns, c1)]
            ELSE next_up(ns, c1)
    ELSE [status |-> BTREE_ERROR_NOT_FOUND, c |-> [c EXCEPT !.valid = FALSE]]

\* btree_cursor_next gone wrong: at the end of a leaf it reports not-found
\* but neither moves nor invalidates the cursor
btree_cursor_next_stuck(T, c) ==
    IF ~c.valid
    THEN [status |-> BTREE_ERROR_INVALID, c |-> c]
    ELSE LET c1 == [c EXCEPT !.positions[c.depth] = @ + 1]
         IN IF c1.positions[c1.depth] < T.nodes[c1.path[c1.depth]].num_keys
            THEN [status |-> BTREE_OK, c |-> c1]
            ELSE [status |-> BTREE_ERROR_NOT_FOUND, c |-> c]

btree_cursor_next(T, c) ==
    IF ~c.valid
    THEN [status |-> BTREE_ERROR_INVALID, c |-> c]
    ELSE LET c1 == [c EXCEPT !.positions[c.depth] = @ + 1]
         IN IF c1.positions[c1.depth] < T.nodes[c1.path[c1.depth]].num_keys
            THEN [status |-> BTREE_OK, c |-> c1]
            ELSE next_up(T.nodes, c1)

\* btree_cursor_get gone wrong: an invalid cursor is reported as not-found
btree_cursor_get_not_found(T, c) ==
    IF ~c.valid
    THEN [status |-> BTREE_ERROR_NOT_FOUND, key_written |-> FALSE, key |-> NULL,
          value_written |-> FALSE, value |-> NULL]
    ELSE LET n   == T.nodes[c.path[c.depth]]
             pos == c.positions[c.depth]
         IN IF pos < 0 \/ pos >= n.num_keys
            THEN [status |-> BTREE_ERROR_INVALID, key_written |-> FALSE, key |-> NULL,
                  value_written |-> FALSE, value |-> NULL]
            ELSE [status |-> BTREE_OK, key_written |-> TRUE, key |-> n.keys[pos],
                  value_written |-> n.is_leaf,
                  value |-> IF n.is_leaf THEN n.values[pos] ELSE NULL]

\* btree_cursor_get, with key and value slots given
btree_cursor_get(T, c) ==
    IF ~c.valid
    THEN [status |-> BTREE_ERROR_INVALID, key_written |-> FALSE, key |-> NULL,
          value_written |-> FALSE, value |-> NULL]
    ELSE LET n   == T.nodes[c.path[c.depth]]
             pos == c.positions[c.depth]
         IN IF pos < 0 \/ pos >= n.num_keys
            THEN [status |-> BTREE_ERROR_INVALID, key_written |-> FALSE, key |-> NULL,
                  value_written |-> FALSE, value |-> NULL]
            ELSE [status |-> BTREE_OK, key_written |-> TRUE, key |-> n.keys[pos],
                  value_written |-> n.is_leaf,
                  value |-> IF n.is_leaf THEN n.values[pos] ELSE NULL]

btree_cursor_valid(c) == c.valid

(* ----------------------------- lifecycle ------------------------------- *)
ZeroStats ==
    [node_count |-> 0, key_count |-> 0, height |-> 0, comparisons |-> 0,
     node_visits |-> 0, splits |-> 0, merges |-> 0, search_ops |-> 0,
     insert_ops |-> 0, delete_ops |-> 0, avg_fill_factor |-> 0]

EmptyLeaf ==
    [keys |-> EmptyArr, values |-> EmptyArr, children |-> EmptyArr,
     num_keys |-> 0, is_leaf |-> TRUE]

\* the null btree_t pointer: no tree, no root, no node
NoTree ==
    [nodes |-> <<>>, root |-> NULL, order |-> 0, min_keys |-> 0,
     collect_stats |-> FALSE, stats |-> ZeroStats]

\* btree_create gone wrong: the smallest order is refused
btree_create_refuses_min(o) ==
    IF o <= BTREE_MIN_ORDER \/ o > BTREE_MAX_ORDER
    THEN NoTree
    ELSE [nodes |-> 1 :> EmptyLeaf,
          root |-> 1,
          order |-> o,
          min_keys |-> (o - 1) \div 2,
          collect_stats |-> TRUE,
          stats |-> [ZeroStats EXCEPT !.node_count = 1, !.height = 1]]

\* btree_create: NULL for an order out of range, else the new tree
btree_create(o) ==
    IF o < BTREE_MIN_ORDER \/ o > BTREE_MAX_ORDER
    THEN NoTree
    ELSE [nodes |-> 1 :> EmptyLeaf,
          root |-> 1,
          order |-> o,
          min_keys |-> (o - 1) \div 2,
          collect_stats |-> TRUE,
          stats |-> [ZeroStats EXCEPT !.node_count = 1, !.height = 1]]

\* btree_clear gone wrong: node_count and height are left at 0 by the memset
btree_clear_zero_stats(T) ==
    [T EXCEPT !.nodes = 1 :> EmptyLeaf,
              !.root = 1,
              !.stats = ZeroStats]

\* btree_clear: the nodes are released and a fresh leaf becomes the root
btree_clear(T) ==
    [T EXCEPT !.nodes = 1 :> EmptyLeaf,
              !.root = 1,
              !.stats = [ZeroStats EXCEPT !.node_count = 1, !.height = 1]]

(* ------------------------- the state machine --------------------------- *)
\* the tree as the operations see it; every node allocation succeeds
Tree == [nodes |-> nodes, root |-> root, stats |-> stats, avail |-> -1]

Call(op, key, value, status, had, size_before) ==
    [op |-> op, key |-> key, value |-> value, status |-> status,
     had |-> had, size_before |-> size_before]

Init ==
    \E o \in Orders :
        LET t == btree_create(o)
        IN /\ nodes = t.nodes
           /\ root = t.root
           /\ order = t.order
           /\ min_keys = t.min_keys
           /\ stats = t.stats
           /\ collect_stats = t.collect_stats
           /\ cursor = cursor_create
           /\ last = Call("create", o, NULL, BTREE_OK, FALSE, 0)
           /\ inserted = {}
           /\ lastval = [k \in Keys |-> NULL]
           /\ ninserts = 0
           /\ removed = {}
           /\ nqueries = 0
           /\ yielded = <<>>
           /\ iterating = FALSE

\* btree_insert(tree, key, value); the tree is mutated only while the cursor
\* holds no path into it
Insert(key, value) ==
    /\ ninserts < MaxInserts
    /\ cursor.depth < 0
    /\ LET r == btree_insert(Tree, key, value)
       IN /\ nodes' = r.T.nodes
          /\ root' = r.T.root
          /\ stats' = r.T.stats
          /\ last' = Call("insert", key, value, r.status,
                          btree_contains(Tree, key), btree_size(Tree))
    /\ inserted' = inserted \cup {key}
    /\ lastval' = [lastval EXCEPT ![key] = value]
    /\ ninserts' = ninserts + 1
    /\ UNCHANGED <<order, min_keys, collect_stats, cursor, removed, nqueries,
                   yielded, iterating>>

\* btree_clear(tree): it releases every node, so it is called only while the
\* cursor holds no path into the tree
Clear ==
    /\ ninserts > 0
    /\ cursor.depth < 0
    /\ LET t == btree_clear(Tree)
       IN /\ nodes' = t.nodes
          /\ root' = t.root
          /\ stats' = t.stats
    /\ last' = Call("clear", NULL, NULL, BTREE_OK, FALSE, btree_size(Tree))
    /\ inserted' = {}
    /\ lastval' = [k \in Keys |-> NULL]
    /\ ninserts' = 0
    /\ removed' = {}
    /\ nqueries' = 0
    /\ UNCHANGED <<order, min_keys, collect_stats, cursor, yielded, iterating>>

\* the keys the caller has read so far, with the one under the cursor added
\* when btree_cursor_get returns ok
Observe(seq, c) ==
    LET g == btree_cursor_get(Tree, c)
    IN IF g.status = BTREE_OK THEN Append(seq, g.key) ELSE seq

\* btree_cursor_first(cursor), then btree_cursor_get
CursorFirst ==
    /\ LET r == btree_cursor_first(Tree, cursor)
       IN /\ cursor' = r.c
          /\ last' = Call("cursor_first", NULL, NULL, r.status, FALSE, btree_size(Tree))
          /\ yielded' = Observe(<<>>, r.c)
    /\ iterating' = TRUE
    /\ UNCHANGED <<nodes, root, order, min_keys, stats, collect_stats,
                   inserted, lastval, ninserts, removed, nqueries>>

\* btree_cursor_last(cursor)
CursorLast ==
    /\ LET r == btree_cursor_last(Tree, cursor)
       IN /\ cursor' = r.c
          /\ last' = Call("cursor_last", NULL, NULL, r.status, FALSE, btree_size(Tree))
    /\ yielded' = <<>>
    /\ iterating' = FALSE
    /\ UNCHANGED <<nodes, root, order, min_keys, stats, collect_stats,
                   inserted, lastval, ninserts, removed, nqueries>>

\* btree_cursor_next(cursor), then btree_cursor_get
CursorNext ==
    /\ LET r == btree_cursor_next(Tree, cursor)
       IN /\ cursor' = r.c
          /\ last' = Call("cursor_next", NULL, NULL, r.status, FALSE, btree_size(Tree))
          /\ yielded' = IF iterating /\ r.status = BTREE_OK
                        THEN Observe(yielded, r.c) ELSE yielded
    /\ UNCHANGED <<nodes, root, order, min_keys, stats, collect_stats,
                   inserted, lastval, ninserts, removed, nqueries, iterating>>

\* btree_cursor_destroy(cursor), then btree_cursor_create(tree)
CursorRecreate ==
    /\ cursor.depth >= 0
    /\ cursor' = cursor_create
    /\ last' = Call("cursor_create", NULL, NULL, BTREE_OK, FALSE, btree_size(Tree))
    /\ yielded' = <<>>
    /\ iterating' = FALSE
    /\ UNCHANGED <<nodes, root, order, min_keys, stats, collect_stats,
                   inserted, lastval, ninserts, removed, nqueries>>

Next ==
    \/ \E key \in Keys, value \in Values : Insert(key, value)
    \/ Clear
    \/ CursorFirst
    \/ CursorLast
    \/ CursorNext
    \/ CursorRecreate

Spec == Init /\ [][Next]_vars

(* ------------------ inserts with searches or deletes ------------------ *)
\* btree_search(tree, key, &value); last.value is what was written to the
\* slot, NULL when nothing was
Search(key) ==
    /\ nqueries < MaxQueries
    /\ LET r == btree_search(Tree, key, TRUE)
       IN /\ stats' = r.T.stats
          /\ last' = Call("search", key, IF r.written THEN r.value ELSE NULL,
                          r.status, btree_contains(Tree, key), btree_size(Tree))
    /\ nqueries' = nqueries + 1
    /\ UNCHANGED <<nodes, root, order, min_keys, collect_stats, cursor,
                   inserted, lastval, ninserts, removed, yielded, iterating>>

\* btree_delete(tree, key)
Delete(key) ==
    /\ nqueries < MaxQueries
    /\ LET r == btree_delete(Tree, key)
       IN /\ nodes' = r.T.nodes
          /\ root' = r.T.root
          /\ stats' = r.T.stats
          /\ last' = Call("delete", key, NULL, r.status,
                          btree_contains(Tree, key), btree_size(Tree))
          /\ removed' = IF r.status = BTREE_OK THEN removed \cup {key} ELSE removed
    /\ nqueries' = nqueries + 1
    /\ UNCHANGED <<order, min_keys, collect_stats, cursor,
                   inserted, lastval, ninserts, yielded, iterating>>

\* btree_insert in the runs that mix it with searches or deletes
OpsInsert(key, value) ==
    /\ ninserts < MaxOpsInserts
    /\ Insert(key, value)

NextSearch ==
    \/ \E key \in Keys, value \in Values : OpsInsert(key, value)
    \/ \E key \in Probes : Search(key)

SpecSearch == Init /\ [][NextSearch]_vars

NextDelete ==
    \/ \E key \in Keys, value \in Values : OpsInsert(key, value)
    \/ \E key \in Probes : Delete(key)

SpecDelete == Init /\ [][NextDelete]_vars

(* ---------------------- creation and destruction ----------------------- *)
\* the orders handed to btree_create: around both ends of the legal range
CreateOrders ==
    (0..MaxOrder) \cup ((BTREE_MAX_ORDER - 1)..(BTREE_MAX_ORDER + 1))

\* before any btree_create
InitCreate ==
    /\ nodes = NoTree.nodes
    /\ root = NoTree.root
    /\ order = NoTree.order
    /\ min_keys = NoTree.min_keys
    /\ stats = NoTree.stats
    /\ collect_stats = NoTree.collect_stats
    /\ cursor = cursor_create
    /\ last = Call("none", NULL, NULL, BTREE_OK, FALSE, 0)
    /\ inserted = {}
    /\ lastval = [k \in Keys |-> NULL]
    /\ ninserts = 0
    /\ removed = {}
    /\ nqueries = 0
    /\ yielded = <<>>
    /\ iterating = FALSE

\* tree = btree_create(o); last.key is the order asked for, and the tree is
\* the null pointer exactly if root = NULL afterwards
Create(o) ==
    /\ root = NULL
    /\ LET t == btree_create(o)
       IN /\ nodes' = t.nodes
          /\ root' = t.root
          /\ order' = t.order
          /\ min_keys' = t.min_keys
          /\ stats' = t.stats
          /\ collect_stats' = t.collect_stats
    /\ last' = Call("create", o, NULL, BTREE_OK, FALSE, 0)
    /\ UNCHANGED <<cursor, inserted, lastval, ninserts, removed, nqueries,
                   yielded, iterating>>

\* btree_destroy(tree)
Destroy ==
    /\ root # NULL
    /\ nodes' = NoTree.nodes
    /\ root' = NoTree.root
    /\ order' = NoTree.order
    /\ min_keys' = NoTree.min_keys
    /\ stats' = NoTree.stats
    /\ collect_stats' = NoTree.collect_stats
    /\ last' = Call("destroy", NULL, NULL, BTREE_OK, FALSE, btree_size(Tree))
    /\ inserted' = {}
    /\ lastval' = [k \in Keys |-> NULL]
    /\ ninserts' = 0
    /\ UNCHANGED <<cursor, removed, nqueries, yielded, iterating>>

NextCreate ==
    \/ \E o \in CreateOrders : Create(o)
    \/ Destroy
    \/ \E key \in Keys, value \in Values : root # NULL /\ OpsInsert(key, value)

SpecCreate == InitCreate /\ [][NextCreate]_vars

(* ------------------- one iteration over a built tree ------------------- *)
\* btree_cursor_first on a cursor that was just created
IterFirst ==
    /\ cursor.depth < 0
    /\ CursorFirst

\* the caller's loop: btree_cursor_next while the cursor is valid
IterNext ==
    /\ cursor.valid
    /\ CursorNext

NextIter ==
    \/ \E key \in Keys, value \in Values : OpsInsert(key, value)
    \/ IterFirst
    \/ IterNext

\* the loop keeps calling btree_cursor_next as long as the cursor is valid
SpecIter == Init /\ [][NextIter]_vars /\ WF_vars(IterNext)


(* ------------------- operations and their counters --------------------- *)
\* btree_stats_reset(tree)
StatsReset ==
    /\ stats' = btree_stats_reset(Tree).stats
    /\ last' = Call("stats_reset", NULL, NULL, BTREE_OK, FALSE, btree_size(Tree))
    /\ UNCHANGED <<nodes, root, order, min_keys, collect_stats, cursor, inserted,
                   lastval, ninserts, removed, nqueries, yielded, iterating>>

\* btree_set_stats_collection(tree, enabled)
SetStatsCollection(enabled) ==
    /\ collect_stats' = enabled
    /\ last' = Call("set_stats_collection", NULL, NULL, BTREE_OK, FALSE,
                    btree_size(Tree))
    /\ UNCHANGED <<nodes, root, order, min_keys, stats, cursor, inserted,
                   lastval, ninserts, removed, nqueries, yielded, iterating>>

NextStats ==
    \/ \E key \in Keys : ninserts < MaxStatsInserts /\ Insert(key, 1)
    \/ \E key \in Probes : nqueries < MaxStatsQueries /\ Search(key)
    \/ \E key \in Probes : nqueries < MaxStatsQueries /\ Delete(key)
    \/ Clear
    \/ StatsReset
    \/ \E enabled \in BOOLEAN : SetStatsCollection(enabled)

SpecStats == Init /\ [][NextStats]_vars

(* -------------------- inserts that run out of memory ------------------ *)
\* btree_insert(tree, key, value) during which the allocator gives out avail
\* more nodes and then fails, and the insert needs one more
InsertNoMem(key, value, avail) ==
    /\ ninserts < MaxOpsInserts
    /\ LET r == btree_insert([Tree EXCEPT !.avail = avail], key, value)
       IN /\ r.status = BTREE_ERROR_NOMEM
          /\ nodes' = r.T.nodes
          /\ root' = r.T.root
          /\ stats' = r.T.stats
          /\ last' = Call("insert", key, value, r.status,
                          btree_contains(Tree, key), btree_size(Tree))
    /\ ninserts' = ninserts + 1
    /\ UNCHANGED <<order, min_keys, collect_stats, cursor, inserted, lastval,
                   removed, nqueries, yielded, iterating>>

NextNoMem ==
    \/ \E key \in Keys, value \in Values : OpsInsert(key, value)
    \/ \E key \in Keys, value \in Values, avail \in 0..MaxAvail :
          InsertNoMem(key, value, avail)

SpecNoMem == Init /\ [][NextNoMem]_vars

(* ------------- structural counters under every mutation --------------- *)
NextCounters ==
    \/ \E key \in Keys : OpsInsert(key, 1)
    \/ \E key \in Keys, avail \in 0..MaxAvail : InsertNoMem(key, 1, avail)
    \/ Clear
    \/ StatsReset

SpecCounters == Init /\ [][NextCounters]_vars

(* ------------- inserts while a cursor is positioned -------------------- *)
\* btree_insert gone wrong: an insert that allocates moves the nodes that
\* were there, as a reallocation of one block holding them would
InterleavedInsertRelocating(key, avail) ==
    /\ ninserts < MaxCursorInserts
    /\ LET r == btree_insert([Tree EXCEPT !.avail = avail], key, 1)
           moved == DOMAIN r.T.nodes # DOMAIN nodes
           off == Cardinality(DOMAIN r.T.nodes)
           Relocated ==
               [id \in { n + off : n \in DOMAIN r.T.nodes } |->
                   LET n == r.T.nodes[id - off]
                   IN [n EXCEPT !.children =
                                   [i \in DOMAIN n.children |-> n.children[i] + off]]]
       IN /\ avail >= 0 => r.status = BTREE_ERROR_NOMEM
          /\ nodes' = IF moved THEN Relocated ELSE r.T.nodes
          /\ root' = IF moved THEN r.T.root + off ELSE r.T.root
          /\ stats' = r.T.stats
          /\ last' = Call("insert", key, 1, r.status,
                          btree_contains(Tree, key), btree_size(Tree))
          /\ inserted' = IF r.status = BTREE_OK THEN inserted \cup {key}
                         ELSE inserted
          /\ lastval' = IF r.status = BTREE_OK THEN [lastval EXCEPT ![key] = 1]
                        ELSE lastval
    /\ ninserts' = ninserts + 1
    /\ UNCHANGED <<order, min_keys, collect_stats, cursor, removed, nqueries,
                   yielded, iterating>>

\* btree_insert(tree, key, 1), wherever the cursor stands; the allocator
\* gives out avail more nodes and then fails (-1: it never fails), and with
\* avail >= 0 the insert is one that needs a node more
InterleavedInsert(key, avail) ==
    /\ ninserts < MaxCursorInserts
    /\ LET r == btree_insert([Tree EXCEPT !.avail = avail], key, 1)
       IN /\ avail >= 0 => r.status = BTREE_ERROR_NOMEM
          /\ nodes' = r.T.nodes
          /\ root' = r.T.root
          /\ stats' = r.T.stats
          /\ last' = Call("insert", key, 1, r.status,
                          btree_contains(Tree, key), btree_size(Tree))
          /\ inserted' = IF r.status = BTREE_OK THEN inserted \cup {key}
                         ELSE inserted
          /\ lastval' = IF r.status = BTREE_OK THEN [lastval EXCEPT ![key] = 1]
                        ELSE lastval
    /\ ninserts' = ninserts + 1
    /\ UNCHANGED <<order, min_keys, collect_stats, cursor, removed, nqueries,
                   yielded, iterating>>

\* clear is called only while the cursor holds no path: what a cursor step
\* reads through a path into released nodes is undefined
NextInterleaved ==
    \/ \E key \in Keys, avail \in (-1)..MaxAvail : InterleavedInsert(key, avail)
    \/ \E key \in Keys :
          cursor.depth >= 0 /\ nqueries < MaxStatsQueries /\ Delete(key)
    \/ CursorFirst
    \/ CursorLast
    \/ CursorNext
    \/ CursorRecreate
    \/ Clear

SpecInterleaved == Init /\ [][NextInterleaved]_vars

(* ------------------- validate on arbitrary shapes ---------------------- *)
\* the key arrays a node of a shape may hold, sorted or not
ShapeKeys == UNION { [0..(n - 1) -> 1..MaxShapeKey] : n \in 0..MaxShapeLen }
ShapeRootKeys == UNION { [0..(n - 1) -> 1..MaxShapeKey] : n \in 0..MaxShapeRootKeys }

\* a leaf holding the keys ks
ShapeLeaf(ks) ==
    [keys |-> ks, values |-> [i \in DOMAIN ks |-> 1], children |-> EmptyArr,
     num_keys |-> Cardinality(DOMAIN ks), is_leaf |-> TRUE]

\* the heap of a tree of two levels: node 1 is an internal root with the keys
\* ks, nodes 2, 3, ... are its children, leaves holding the keys cs[0], cs[1], ...
ShapeTwoLevels(ks, cs) ==
    [id \in 1..(Cardinality(DOMAIN cs) + 1) |->
        IF id = 1
        THEN [keys |-> ks, values |-> EmptyArr,
              children |-> [i \in DOMAIN cs |-> i + 2],
              num_keys |-> Cardinality(DOMAIN ks), is_leaf |-> FALSE]
        ELSE ShapeLeaf(cs[id - 2])]

\* a tree of any shape of one or two levels, built by hand
InitShape ==
    /\ order \in Orders
    /\ min_keys = (order - 1) \div 2
    /\ root = 1
    /\ \/ \E ks \in ShapeKeys : nodes = (1 :> ShapeLeaf(ks))
       \/ \E ks \in ShapeRootKeys :
             \E cs \in [0..Cardinality(DOMAIN ks) -> ShapeKeys] :
                nodes = ShapeTwoLevels(ks, cs)
    /\ stats = [ZeroStats EXCEPT !.node_count = Cardinality(DOMAIN nodes),
                                 !.height = calculate_height(nodes, root)]
    /\ collect_stats = TRUE
    /\ cursor = cursor_create
    /\ last = Call("none", NULL, NULL, BTREE_OK, FALSE, 0)
    /\ inserted = {}
    /\ lastval = [k \in Keys |-> NULL]
    /\ ninserts = 0
    /\ removed = {}
    /\ nqueries = 0
    /\ yielded = <<>>
    /\ iterating = FALSE

\* ok = btree_validate(tree); last.value is the boolean returned
Validate ==
    /\ last' = Call("validate", NULL, btree_validate(Tree), BTREE_OK, FALSE,
                    btree_size(Tree))
    /\ UNCHANGED <<nodes, root, order, min_keys, stats, collect_stats, cursor,
                   inserted, lastval, ninserts, removed, nqueries, yielded,
                   iterating>>

NextShape == Validate

SpecShape == InitShape /\ [][NextShape]_vars

(* ------------------ binary search inside one node --------------------- *)
\* the key arrays of the node searched, strictly increasing or not
SearchKeys == UNION { [0..(n - 1) -> 1..MaxSearchKey] : n \in 0..MaxSearchLen }
\* the keys asked for: below, among and above the keys a node may hold
SearchProbes == 0..(MaxSearchKey + 1)

\* a tree whose root is one leaf built by hand, of an order that fits it
InitBinarySearch ==
    /\ \E ks \in SearchKeys :
          /\ nodes = (1 :> ShapeLeaf(ks))
          /\ order = IF Cardinality(DOMAIN ks) < 2 THEN 3 ELSE Cardinality(DOMAIN ks) + 1
    /\ min_keys = (order - 1) \div 2
    /\ root = 1
    /\ stats = [ZeroStats EXCEPT !.node_count = 1, !.height = 1,
                                 !.key_count = nodes[1].num_keys]
    /\ collect_stats = TRUE
    /\ cursor = cursor_create
    /\ last = Call("none", NULL, NULL, BTREE_OK, FALSE, 0)
    /\ inserted = {}
    /\ lastval = [k \in Keys |-> NULL]
    /\ ninserts = 0
    /\ removed = {}
    /\ nqueries = 0
    /\ yielded = <<>>
    /\ iterating = FALSE

\* pos = node_binary_search(root, key, &found, NULL); last.value is the index
\* returned and last.had the found flag
BinarySearch(key) ==
    LET r == node_binary_search(nodes[root], key)
    IN /\ last' = Call("binary_search", key, r.pos, BTREE_OK, r.found,
                       nodes[root].num_keys)
       /\ UNCHANGED <<nodes, root, order, min_keys, stats, collect_stats, cursor,
                      inserted, lastval, ninserts, removed, nqueries, yielded,
                      iterating>>

NextBinarySearch == \E key \in SearchProbes : BinarySearch(key)

SpecBinarySearch == InitBinarySearch /\ [][NextBinarySearch]_vars

(* ------------------ runs of inserts of distinct keys ------------------- *)
\* btree_insert(tree, key, value) with a key that was not inserted before
InsertDistinct(key) ==
    /\ key \notin inserted
    /\ LET r == btree_insert(Tree, key, 1)
       IN /\ nodes' = r.T.nodes
          /\ root' = r.T.root
          /\ stats' = r.T.stats
          /\ last' = Call("insert", key, 1, r.status,
                          btree_contains(Tree, key), btree_size(Tree))
    /\ inserted' = inserted \cup {key}
    /\ lastval' = (key :> 1) @@ lastval
    /\ ninserts' = ninserts + 1
    /\ UNCHANGED <<order, min_keys, collect_stats, cursor, removed, nqueries,
                   yielded, iterating>>

\* stats = btree_stats_get(tree); last.value is the snapshot returned
StatsGet ==
    /\ last' = Call("stats_get", NULL, btree_stats_get(Tree), BTREE_OK, FALSE,
                    btree_size(Tree))
    /\ UNCHANGED <<nodes, root, order, min_keys, stats, collect_stats, cursor,
                   inserted, lastval, ninserts, removed, nqueries, yielded,
                   iterating>>

NextDistinct ==
    \/ \E key \in DistinctKeys : InsertDistinct(key)
    \/ StatsGet

SpecDistinct == Init /\ [][NextDistinct]_vars

(* ------------------------ read-only operations ------------------------- *)
\* btree_search(tree, key, &value) when want_value, btree_contains(tree, key)
\* otherwise; the tree is taken as the call leaves it
Lookup(key, want_value) ==
    /\ nqueries < MaxStatsQueries
    /\ LET r == btree_search(Tree, key, want_value)
       IN /\ nodes' = r.T.nodes
          /\ root' = r.T.root
          /\ stats' = r.T.stats
          /\ last' = Call(IF want_value THEN "search" ELSE "contains", key,
                          IF r.written THEN r.value ELSE NULL, r.status,
                          r.status = BTREE_OK, btree_size(Tree))
    /\ nqueries' = nqueries + 1
    /\ UNCHANGED <<order, min_keys, collect_stats, cursor, inserted, lastval,
                   ninserts, removed, yielded, iterating>>

\* h = btree_height(tree)
Height ==
    /\ last' = Call("height", NULL, btree_height(Tree), BTREE_OK, FALSE,
                    btree_size(Tree))
    /\ UNCHANGED <<nodes, root, order, min_keys, stats, collect_stats, cursor,
                   inserted, lastval, ninserts, removed, nqueries, yielded,
                   iterating>>

\* n = btree_size(tree)
Size ==
    /\ last' = Call("size", NULL, btree_size(Tree), BTREE_OK, FALSE,
                    btree_size(Tree))
    /\ UNCHANGED <<nodes, root, order, min_keys, stats, collect_stats, cursor,
                   inserted, lastval, ninserts, removed, nqueries, yielded,
                   iterating>>

NextReadOnly ==
    \/ \E key \in Keys : ninserts < MaxStatsInserts /\ Insert(key, 1)
    \/ \E key \in Probes, want_value \in BOOLEAN : Lookup(key, want_value)
    \/ Validate
    \/ Height
    \/ Size
    \/ StatsGet
    \/ CursorFirst
    \/ CursorLast
    \/ CursorNext
    \/ CursorRecreate

SpecReadOnly == Init /\ [][NextReadOnly]_vars

\* b to the power e
RECURSIVE Pow(_, _)
Pow(b, e) == IF e = 0 THEN 1 ELSE b * Pow(b, e - 1)

\* ceil(log_b((n+1)/2)) for n >= 1: the least e with 2 * b^e >= n + 1
RECURSIVE CeilLogFrom(_, _, _)
CeilLogFrom(b, n, e) == IF 2 * Pow(b, e) >= n + 1 THEN e ELSE CeilLogFrom(b, n, e + 1)

\* ceil(m / 2)
HalfUp(m) == (m + 1) \div 2

\* C12: for any legal order m and any insertion sequence of N distinct keys,
\* height(tree) <= ceil(log base ceil(m/2) of ((N+1)/2)) + 1 after the N
\* inserts.
C12_HeightBound ==
    (ninserts >= 1 /\ ninserts = Cardinality(inserted)) =>
        btree_height(Tree) <= CeilLogFrom(HalfUp(order), ninserts, 0) + 1

(* ----------------------- reading the structure ------------------------- *)
\* the nodes reachable from a node through child links
RECURSIVE Reach(_, _)
Reach(ns, node) ==
    IF node = NULL THEN {}
    ELSE {node} \cup UNION { Reach(ns, ns[node].children[i]) :
                                i \in DOMAIN ns[node].children }

\* the keys stored in a node
NodeKeys(n) == { n.keys[i] : i \in 0..(n.num_keys - 1) }

\* the keys stored anywhere in the subtree of a node
SubtreeKeys(ns, node) == UNION { NodeKeys(ns[m]) : m \in Reach(ns, node) }

\* how many key slots of the whole tree hold key k
Occurrences(ns, rt, k) ==
    Cardinality({ <<m, i>> \in Reach(ns, rt) \X (0..(MaxOrder + 1)) :
                    i < ns[m].num_keys /\ ns[m].keys[i] = k })

\* the number of nodes on each path from a node down to a leaf
RECURSIVE PathLengths(_, _)
PathLengths(ns, node) ==
    IF ns[node].is_leaf THEN {1}
    ELSE UNION { { 1 + d : d \in PathLengths(ns, ns[node].children[i]) } :
                   i \in 0..ns[node].num_keys }

Internal(ns, rt) == { m \in Reach(ns, rt) : ~ns[m].is_leaf }

(* ------------------------------- claims -------------------------------- *)
\* C1: after any sequence of successful inserts, on any legal order, every
\* node other than the root holds at least min_keys = (order-1) div 2 keys.
C1_MinKeys ==
    \A m \in Reach(nodes, root) \ {root} :
        nodes[m].num_keys >= (order - 1) \div 2

\* C2: after any sequence of inserts, for every internal node and separator
\* index i, every key of the subtree children[i] is < keys[i] and every key
\* of the subtree children[i+1] is > keys[i].
C2_KeySeparation ==
    \A m \in Internal(nodes, root) :
        \A i \in 0..(nodes[m].num_keys - 1) :
            /\ \A k \in SubtreeKeys(nodes, nodes[m].children[i]) : k < nodes[m].keys[i]
            /\ \A k \in SubtreeKeys(nodes, nodes[m].children[i + 1]) : k > nodes[m].keys[i]

\* C8: validate(tree) returns true after every insert into a fresh or
\* cleared tree, for any legal order and any insertion order.
C8_ValidateAfterInsert ==
    last.op = "insert" => btree_validate(Tree)

\* C9: after any sequence of inserts the keys inside every node are strictly
\* increasing: keys[i] < keys[i+1] for all i in [0, num_keys-2].
C9_SortedKeys ==
    \A m \in Reach(nodes, root) :
        \A i \in 0..(nodes[m].num_keys - 2) : nodes[m].keys[i] < nodes[m].keys[i + 1]

\* C10: after any sequence of inserts all leaves are at the same depth, and
\* height(tree), computed along children[0], is the length of every
\* root-to-leaf path.
C10_UniformLeafDepth ==
    PathLengths(nodes, root) = {btree_height(Tree)}

\* C10 witness: an insert has split an internal node and the tree has three
\* levels, with leaves under more than one internal node.
C10_Witness ==
    /\ last.op = "insert"
    /\ btree_height(Tree) >= 3
    /\ Cardinality(Internal(nodes, root)) >= 3

\* how many times key k was read by the caller of the cursor
TimesYielded(k) == Cardinality({ i \in 1..Len(yielded) : yielded[i] = k })

\* the iteration started by cursor_first on the present tree has ended
IterationDone ==
    /\ iterating
    /\ ~btree_cursor_valid(cursor)
    /\ last.op \in {"cursor_first", "cursor_next"}

\* C3: inserting a key the tree already contains returns ok, adds no second
\* entry (the key occurs in exactly one node), leaves size unchanged, and a
\* following search that finds the key in a leaf yields the new value.
C3_Upsert ==
    (last.op = "insert" /\ last.had) =>
        /\ last.status = BTREE_OK
        /\ Occurrences(nodes, root, last.key) = 1
        /\ btree_size(Tree) = last.size_before
        /\ LET s == btree_search(Tree, last.key, TRUE)
           IN s.in_leaf => (s.written /\ s.value = last.value)

\* C4: after any sequence of insert calls, size(tree) equals the number of
\* distinct keys that were inserted.
C4_SizeIsDistinctCount ==
    btree_size(Tree) = Cardinality(inserted)

\* C5: contains(k) is true for every key that was inserted and false for
\* every key that was never inserted, whatever splits happened.
C5_MembershipExact ==
    \A k \in 0..(MaxKey + 1) : btree_contains(Tree, k) <=> k \in inserted

\* C5 witness: after an insert that found the root full, an inserted key is
\* held as a separator by an internal node and some key was never inserted.
C5_Witness ==
    /\ last.op = "insert"
    /\ stats.splits >= 1
    /\ \E m \in Internal(nodes, root) : NodeKeys(nodes[m]) \cap inserted # {}
    /\ inserted # Keys

\* C6: cursor_first then cursor_next until the cursor is invalid yields every
\* key contained in the tree, separators included, each exactly once.
C6_CursorComplete ==
    IterationDone =>
        /\ \A k \in 0..(MaxKey + 1) : btree_contains(Tree, k) => TimesYielded(k) = 1
        /\ \A i \in 1..Len(yielded) : btree_contains(Tree, yielded[i])

\* C7: the keys returned by cursor_get across cursor_first and the following
\* cursor_next calls are strictly ascending.
C7_CursorAscending ==
    iterating => \A i \in 1..(Len(yielded) - 1) : yielded[i] < yielded[i + 1]

\* C11: no node ever holds more than order-1 keys, nor an internal node more
\* than order children: every full node on the path is split before it is
\* entered.
C11_NoOverfullNode ==
    \A m \in Reach(nodes, root) :
        /\ nodes[m].num_keys <= order - 1
        /\ ~nodes[m].is_leaf => Cardinality(DOMAIN nodes[m].children) <= order

\* C11 witness: inserts have split the root and a child on the way down, and
\* a node holds order-1 keys.
C11_Witness ==
    /\ last.op = "insert"
    /\ stats.splits >= 2
    /\ \E m \in Reach(nodes, root) : nodes[m].num_keys = order - 1

\* the key is held by no internal node, so a search can only match in a leaf
OnlyInLeaves(k) == \A m \in Internal(nodes, root) : k \notin NodeKeys(nodes[m])

\* C13: search(k, out) on a contained key returns ok; a match in a leaf
\* writes the value of the most recent insert of k to out, a match on a
\* separator of an internal node leaves out unwritten; on a key that is not
\* contained it returns not-found and leaves out unwritten.
C13_SearchResult ==
    last.op = "search" =>
        IF last.key \in inserted
        THEN /\ last.status = BTREE_OK
             /\ OnlyInLeaves(last.key) => last.value = lastval[last.key]
             /\ ~OnlyInLeaves(last.key) => last.value = NULL
        ELSE /\ last.status = BTREE_ERROR_NOT_FOUND
             /\ last.value = NULL

\* C13 witness: a search has matched a key in a leaf of a tree that was
\* split, after the key was inserted again with another value.
C13_Witness ==
    /\ last.op = "search"
    /\ last.status = BTREE_OK
    /\ last.value = MaxValue
    /\ stats.splits >= 1
    /\ ninserts > Cardinality(inserted)

\* C13 witness of the other case: a search has matched a separator.
C13_WitnessSeparator ==
    /\ last.op = "search"
    /\ last.status = BTREE_OK
    /\ last.value = NULL

C14_WitnessMiss ==
    /\ last.op = "delete"
    /\ last.status = BTREE_ERROR_NOT_FOUND
    /\ inserted # {}

\* C15: after any interleaving of inserts and degenerate deletes, size(tree)
\* is the number of distinct keys ever inserted minus the number of those
\* keys removed by delete.
C15_SizeAfterDeletes ==
    btree_size(Tree) = Cardinality(inserted) - Cardinality(removed)

\* C16: cursor iteration terminates: on a tree built by inserts and not
\* changed during the iteration, cursor_first followed by repeated
\* cursor_next reaches valid = false, and the call that takes the cursor
\* from valid to invalid is a cursor_next that returns not-found.
C16_IterationTerminates ==
    /\ iterating ~> ~cursor.valid
    /\ [][(cursor.valid /\ ~cursor'.valid) =>
             (last'.op = "cursor_next" /\ last'.status = BTREE_ERROR_NOT_FOUND)]_vars

\* C16 witness: an iteration over a tree of two levels was exhausted by a
\* cursor_next after it had yielded keys.
C16_Witness ==
    /\ iterating
    /\ ~cursor.valid
    /\ last.op = "cursor_next"
    /\ last.status = BTREE_ERROR_NOT_FOUND
    /\ Len(yielded) >= 2
    /\ btree_height(Tree) >= 2

\* the largest and the smallest of a non-empty set of keys
MaxOf(S) == CHOOSE k \in S : \A j \in S : j <= k
MinOf(S) == CHOOSE k \in S : \A j \in S : k <= j

\* C17: cursor_last on a tree that contains at least one key returns ok and
\* leaves the cursor valid, cursor_get then returns the largest key of the
\* tree, and a following cursor_next returns not-found and invalidates the
\* cursor.
C17_CursorLast ==
    (last.op = "cursor_last" /\ inserted # {}) =>
        /\ last.status = BTREE_OK
        /\ btree_cursor_valid(cursor)
        /\ btree_cursor_get(Tree, cursor).status = BTREE_OK
        /\ btree_cursor_get(Tree, cursor).key = MaxOf(inserted)
        /\ btree_cursor_next(Tree, cursor).status = BTREE_ERROR_NOT_FOUND
        /\ ~btree_cursor_valid(btree_cursor_next(Tree, cursor).c)

\* C18: on an empty tree cursor_first and cursor_last return not-found and
\* leave the cursor invalid; on a tree that holds at least one key
\* cursor_first returns ok and leaves the cursor valid, and cursor_get
\* returns the smallest key of the tree.
C18_CursorFirst ==
    /\ (last.op \in {"cursor_first", "cursor_last"} /\ inserted = {}) =>
           /\ last.status = BTREE_ERROR_NOT_FOUND
           /\ ~btree_cursor_valid(cursor)
    /\ (last.op = "cursor_first" /\ inserted # {}) =>
           /\ last.status = BTREE_OK
           /\ btree_cursor_valid(cursor)
           /\ btree_cursor_get(Tree, cursor).status = BTREE_OK
           /\ btree_cursor_get(Tree, cursor).key = MinOf(inserted)

\* C18 witness: cursor_first has found the smallest key of a tree of two
\* levels that holds three keys or more.
C18_Witness ==
    /\ last.op = "cursor_first"
    /\ last.status = BTREE_OK
    /\ btree_height(Tree) >= 2
    /\ Cardinality(inserted) >= 3
    /\ btree_cursor_get(Tree, cursor).key = MinOf(inserted)

\* C18 witness of the other case: cursor_last on an empty tree.
C18_WitnessEmpty ==
    /\ last.op = "cursor_last"
    /\ inserted = {}
    /\ last.status = BTREE_ERROR_NOT_FOUND

\* C19: on a cursor that is unpositioned or exhausted cursor_get and
\* cursor_next return invalid-argument, write no key and no value and leave
\* the cursor as it is; the cursor becomes valid again only by cursor_first
\* or cursor_last.
C19_InvalidCursor ==
    /\ [](~btree_cursor_valid(cursor) =>
             /\ btree_cursor_get(Tree, cursor).status = BTREE_ERROR_INVALID
             /\ ~btree_cursor_get(Tree, cursor).key_written
             /\ ~btree_cursor_get(Tree, cursor).value_written
             /\ btree_cursor_next(Tree, cursor).status = BTREE_ERROR_INVALID
             /\ btree_cursor_next(Tree, cursor).c = cursor)
    /\ [][(~cursor.valid /\ last'.op = "cursor_next") =>
             (last'.status = BTREE_ERROR_INVALID /\ cursor' = cursor)]_vars
    /\ [][(~cursor.valid /\ cursor'.valid) =>
             last'.op \in {"cursor_first", "cursor_last"}]_vars

\* C19 witness: cursor_next was called on a cursor that an iteration over a
\* tree of two levels had exhausted.
C19_Witness ==
    /\ last.op = "cursor_next"
    /\ last.status = BTREE_ERROR_INVALID
    /\ iterating
    /\ Len(yielded) >= 2
    /\ cursor.depth = 0
    /\ btree_height(Tree) >= 2

\* C19 witness of the other case: cursor_next on a cursor just created.
C19_WitnessUnpositioned ==
    /\ last.op = "cursor_next"
    /\ last.status = BTREE_ERROR_INVALID
    /\ cursor = cursor_create

\* C20: create(order) returns no tree for every order below 3 and above
\* 1024 and a tree for every order in [3, 1024]; the new tree has an empty
\* leaf as its root, size 0, height 1, node_count 1, statistics collection
\* enabled, validate true and contains(k) false for every k.
C20_Create ==
    last.op = "create" =>
        /\ root # NULL <=>
               (last.key >= BTREE_MIN_ORDER /\ last.key <= BTREE_MAX_ORDER)
        /\ root # NULL =>
               /\ order = last.key
               /\ nodes[root].is_leaf
               /\ nodes[root].num_keys = 0
               /\ btree_size(Tree) = 0
               /\ btree_height(Tree) = 1
               /\ stats.height = 1
               /\ stats.node_count = 1
               /\ collect_stats
               /\ btree_validate(Tree)
               /\ \A k \in Probes : ~btree_contains(Tree, k)

\* C20 witness: a tree of the largest legal order was created.
C20_Witness ==
    /\ last.op = "create"
    /\ last.key = BTREE_MAX_ORDER
    /\ root # NULL
    /\ stats.node_count = 1

\* C20 witness of the other cases: orders 2 and 1025 were refused.
C20_WitnessRefused ==
    /\ last.op = "create"
    /\ last.key \in {BTREE_MIN_ORDER - 1, BTREE_MAX_ORDER + 1}
    /\ root = NULL

\* the tree and its counters are those of btree_create(order)
FreshTree ==
    /\ nodes = btree_create(order).nodes
    /\ root = btree_create(order).root
    /\ stats = btree_create(order).stats
    /\ min_keys = btree_create(order).min_keys

\* C21: clear returns the tree to the state of a fresh tree of the same
\* order whatever preceded it: size 0, height 1, node_count 1, every
\* operation counter 0, contains(k) false for every k, validate true; order
\* and collect_stats are unchanged, and since the nodes and the counters are
\* those of a newly created tree, inserts after clear behave as on one.
C21_Clear ==
    /\ [](last.op = "clear" =>
             /\ btree_size(Tree) = 0
             /\ btree_height(Tree) = 1
             /\ stats = [ZeroStats EXCEPT !.node_count = 1, !.height = 1]
             /\ \A k \in Probes : ~btree_contains(Tree, k)
             /\ btree_validate(Tree)
             /\ FreshTree)
    /\ [][last'.op = "clear" =>
             (order' = order /\ collect_stats' = collect_stats)]_vars

\* C21 witness: a tree of order 3 that held three keys, and so had split,
\* was cleared while collection was disabled.
C21_Witness ==
    /\ last.op = "clear"
    /\ order = 3
    /\ last.size_before >= 3
    /\ ~collect_stats

\* the step is a call of btree_insert, btree_search or btree_delete
InsertStep == last'.op = "insert" /\ ninserts' = ninserts + 1
SearchStep == last'.op = "search" /\ nqueries' = nqueries + 1
DeleteStep == last'.op = "delete" /\ nqueries' = nqueries + 1

\* C22: the operation counters are updated unconditionally: whether
\* collection is enabled or disabled, every insert call adds exactly one to
\* insert_ops, every search call exactly one to search_ops and every delete
\* call exactly one to delete_ops.
C22_OpCountersUnconditional ==
    [][/\ InsertStep => stats'.insert_ops = stats.insert_ops + 1
       /\ SearchStep => stats'.search_ops = stats.search_ops + 1
       /\ DeleteStep => stats'.delete_ops = stats.delete_ops + 1]_vars

\* C22 as amended: the operation counters are gated by collect_stats: while
\* collection is enabled every insert call adds exactly one to insert_ops,
\* every search call exactly one to search_ops and every delete call exactly
\* one to delete_ops; while it is disabled insert, search and delete leave
\* the three counters unchanged.
C22_OpCountersGated ==
    [][IF collect_stats
       THEN /\ InsertStep => stats'.insert_ops = stats.insert_ops + 1
            /\ SearchStep => stats'.search_ops = stats.search_ops + 1
            /\ DeleteStep => stats'.delete_ops = stats.delete_ops + 1
       ELSE (InsertStep \/ SearchStep \/ DeleteStep) =>
                /\ stats'.insert_ops = stats.insert_ops
                /\ stats'.search_ops = stats.search_ops
                /\ stats'.delete_ops = stats.delete_ops]_vars

\* C22 witness: the only insert so far was made with collection disabled and
\* insert_ops is still 0.
C22_Witness ==
    /\ last.op = "insert"
    /\ ninserts = 1
    /\ ~collect_stats
    /\ stats.insert_ops = 0
    /\ stats.key_count = 1

\* C22 witness of the other case: a delete was counted with collection on.
C22_WitnessEnabled ==
    /\ last.op = "delete"
    /\ collect_stats
    /\ stats.delete_ops = 1

\* the nodes a lookup of k visits from node on: down to the node that holds
\* k, or to a leaf
RECURSIVE LookupPath(_, _, _)
LookupPath(ns, node, k) ==
    LET r == node_binary_search(ns[node], k)
    IN IF r.found \/ ns[node].is_leaf THEN <<node>>
       ELSE <<node>> \o LookupPath(ns, ns[node].children[r.pos], k)

\* the nodes an insert of k visits from node on when it splits nothing
RECURSIVE InsertPath(_, _, _)
InsertPath(ns, node, k) ==
    IF ns[node].is_leaf THEN <<node>>
    ELSE <<node>> \o InsertPath(ns,
             ns[node].children[descend_pos(node_binary_search(ns[node], k))], k)

\* the key comparisons of the in-node searches for k along a path
RECURSIVE PathComparisons(_, _, _)
PathComparisons(ns, path, k) ==
    IF path = <<>> THEN 0
    ELSE node_binary_search(ns[Head(path)], k).cmps + PathComparisons(ns, Tail(path), k)

\* the most comparisons a search of m sorted keys can make: the least c
\* with 2^c > m
RECURSIVE MaxComparisons(_)
MaxComparisons(m) == IF m = 0 THEN 0 ELSE 1 + MaxComparisons(m \div 2)

\* C23: the hot-path counters are gated by collect_stats: while collection
\* is disabled insert, search, contains and delete leave comparisons and
\* node_visits unchanged; while it is enabled each key comparison of the
\* in-node binary search adds one to comparisons and each node visited by a
\* search or insert descent adds one to node_visits.
C23_HotPathCounters ==
    /\ [][(InsertStep \/ SearchStep \/ DeleteStep) =>
            IF ~collect_stats
            THEN /\ stats'.comparisons = stats.comparisons
                 /\ stats'.node_visits = stats.node_visits
            ELSE LET k      == last'.key
                     lookup == LookupPath(nodes, root, k)
                     visits == stats'.node_visits - stats.node_visits
                     cmps   == stats'.comparisons - stats.comparisons
                 IN IF InsertStep
                    THEN /\ visits = btree_height(Tree')
                         /\ cmps <= visits * MaxComparisons(order - 1)
                         /\ stats'.splits = stats.splits =>
                              cmps = PathComparisons(nodes,
                                                     InsertPath(nodes, root, k), k)
                    ELSE /\ visits = Len(lookup)
                         /\ cmps = PathComparisons(nodes, lookup, k)
                         /\ cmps <= visits * MaxComparisons(order - 1)
                         /\ last'.status = BTREE_OK => cmps >= 1
                         /\ last'.status = BTREE_ERROR_NOT_FOUND =>
                              visits = btree_height(Tree)]_vars
    /\ [](\A k \in Probes :
            btree_search(Tree, k, FALSE).T.stats = btree_search(Tree, k, TRUE).T.stats)

\* C23 witness: with collection enabled a search went through two nodes of
\* a split tree and made two comparisons or more.
C23_Witness ==
    /\ last.op = "search"
    /\ collect_stats
    /\ stats.search_ops = 1
    /\ stats.node_visits >= 2
    /\ stats.comparisons >= 2
    /\ stats.insert_ops = 0
    /\ btree_height(Tree) >= 2

\* C23 witness of the other case: an insert with collection disabled left
\* both counters at 0.
C23_WitnessDisabled ==
    /\ last.op = "insert"
    /\ ~collect_stats
    /\ ninserts = MaxStatsInserts
    /\ stats.node_visits = 0
    /\ stats.comparisons = 0
    /\ stats.splits >= 1

\* C24: stats_reset sets comparisons, node_visits, splits, merges,
\* search_ops, insert_ops and delete_ops to 0 and leaves node_count,
\* key_count, height, the collect_stats flag and every node unchanged.
C24_StatsReset ==
    [][last'.op = "stats_reset" =>
          /\ stats'.comparisons = 0
          /\ stats'.node_visits = 0
          /\ stats'.splits = 0
          /\ stats'.merges = 0
          /\ stats'.search_ops = 0
          /\ stats'.insert_ops = 0
          /\ stats'.delete_ops = 0
          /\ stats'.node_count = stats.node_count
          /\ stats'.key_count = stats.key_count
          /\ stats'.height = stats.height
          /\ collect_stats' = collect_stats
          /\ nodes' = nodes
          /\ root' = root]_vars

\* C24 witness: the counters of a tree of two levels that holds three keys
\* were reset.
C24_Witness ==
    /\ last.op = "stats_reset"
    /\ stats.key_count = 3
    /\ stats.node_count = 3
    /\ stats.height = 2
    /\ stats.splits = 0
    /\ stats.insert_ops = 0
    /\ collect_stats

\* the keys held by all the nodes of the tree, counted with repetition
RECURSIVE SumKeys(_, _)
SumKeys(ns, S) ==
    IF S = {} THEN 0
    ELSE LET m == CHOOSE x \in S : TRUE
         IN ns[m].num_keys + SumKeys(ns, S \ {m})

\* C25: a stats_get snapshot taken after n inserts of n distinct keys into a
\* fresh tree with collection enabled reports insert_ops = n and
\* key_count = n, splits >= 1 and node_count > 1 once n exceeds order-1, a
\* height equal to the live root-to-leaf path length, and a fill factor in
\* (0, 1] that is the keys of all nodes over node_count * (order-1); taking
\* the snapshot changes neither the tree nor its stored counters.
C25_Snapshot ==
    /\ []((last.op = "stats_get" /\ ninserts >= 1) =>
            LET g == last.value
                n == ninserts
            IN /\ g.insert_ops = n
               /\ g.key_count = n
               /\ n > order - 1 => (g.splits >= 1 /\ g.node_count > 1)
               /\ PathLengths(nodes, root) = {g.height}
               /\ g.avg_fill_factor.num = SumKeys(nodes, Reach(nodes, root))
               /\ g.avg_fill_factor.den = g.node_count * (order - 1)
               /\ 0 < g.avg_fill_factor.num
               /\ g.avg_fill_factor.num <= g.avg_fill_factor.den)
    /\ [][last'.op = "stats_get" =>
            (nodes' = nodes /\ root' = root /\ stats' = stats
             /\ collect_stats' = collect_stats)]_vars

\* C25 witness: a snapshot of a tree of three levels built from seven
\* distinct keys.
C25_Witness ==
    /\ last.op = "stats_get"
    /\ ninserts = MaxDistinct
    /\ last.value.height >= 3
    /\ last.value.splits >= 2

\* C26: an insert during which a node allocation fails returns
\* out-of-memory and leaves the tree valid: validate is true, all leaves are
\* at equal depth, the contained keys and key_count are what they were, and
\* the stored node_count and height match the live structure; key_count is
\* incremented only by an insert that returns ok and stored a new leaf entry.
C26_NoMemKeepsTreeValid ==
    /\ []((last.op = "insert" /\ last.status = BTREE_ERROR_NOMEM) =>
            /\ btree_validate(Tree)
            /\ Cardinality(PathLengths(nodes, root)) = 1
            /\ stats.node_count = Cardinality(Reach(nodes, root))
            /\ stats.height = btree_height(Tree))
    /\ [][(last'.op = "insert" /\ ninserts' = ninserts + 1
           /\ last'.status = BTREE_ERROR_NOMEM) =>
             /\ stats'.key_count = stats.key_count
             /\ \A k \in Probes :
                  btree_contains(Tree', k) <=> btree_contains(Tree, k)]_vars
    /\ [][stats'.key_count > stats.key_count =>
             /\ last'.op = "insert"
             /\ last'.status = BTREE_OK
             /\ stats'.key_count = stats.key_count + 1
             /\ SumKeys(nodes', Reach(nodes', root'))
                  = SumKeys(nodes, Reach(nodes, root)) + 1]_vars

\* what validate is to decide, node by node: at most order-1 keys, at least
\* min_keys keys but in the root, strictly increasing keys, and the keys of
\* every subtree strictly between the separators that enclose it
WellFormed ==
    /\ \A m \in Reach(nodes, root) :
          /\ nodes[m].num_keys <= order - 1
          /\ m # root => nodes[m].num_keys >= min_keys
          /\ \A i \in 0..(nodes[m].num_keys - 2) :
                nodes[m].keys[i] < nodes[m].keys[i + 1]
    /\ \A m \in Internal(nodes, root) :
          \A i \in 0..(nodes[m].num_keys - 1) :
             /\ \A k \in SubtreeKeys(nodes, nodes[m].children[i]) :
                   k < nodes[m].keys[i]
             /\ \A k \in SubtreeKeys(nodes, nodes[m].children[i + 1]) :
                   k > nodes[m].keys[i]

\* C27: validate is an exact checker: for any tree shape, well-formed or
\* not, it returns true if and only if every reachable node has at most
\* order-1 keys, every non-root node at least min_keys keys, every node's
\* keys are strictly increasing, and every key of every subtree lies strictly
\* between the separators that enclose it; it never modifies the tree.
C27_ValidateExact ==
    /\ [](last.op = "validate" => (last.value <=> WellFormed))
    /\ [][last'.op = "validate" =>
             (nodes' = nodes /\ root' = root /\ stats' = stats)]_vars

\* C27 witness: validate has accepted a tree of two levels.
C27_Witness ==
    /\ last.op = "validate"
    /\ last.value
    /\ ~nodes[root].is_leaf
    /\ nodes[root].num_keys = 1

\* C27 witnesses of the other cases: validate has rejected a tree whose only
\* defect is a key on the wrong side of its separator, and one whose only
\* defect is a node with too many keys.
C27_WitnessRejected ==
    /\ last.op = "validate"
    /\ ~last.value
    /\ \A m \in Reach(nodes, root) :
          /\ nodes[m].num_keys <= order - 1
          /\ m # root => nodes[m].num_keys >= min_keys
          /\ \A i \in 0..(nodes[m].num_keys - 2) :
                nodes[m].keys[i] < nodes[m].keys[i + 1]

C27_WitnessOverfull ==
    /\ last.op = "validate"
    /\ ~last.value
    /\ nodes[root].is_leaf
    /\ nodes[root].num_keys = order
    /\ \A i \in 0..(nodes[root].num_keys - 2) :
          nodes[root].keys[i] < nodes[root].keys[i + 1]

\* C28: the tree grows only at the root: height changes only inside insert,
\* by exactly +1, and exactly when the root holds order-1 keys at the start
\* of that insert, whether or not the key exists already; then a new
\* internal root with the old root as child[0] is installed and the old root
\* is split; height never decreases except through clear.
C28_GrowsAtRoot ==
    [][/\ (btree_height(Tree') # btree_height(Tree) \/ stats'.height # stats.height) =>
              \/ /\ InsertStep
                 /\ btree_height(Tree') = btree_height(Tree) + 1
                 /\ stats'.height = stats.height + 1
              \/ /\ last'.op = "clear"
                 /\ btree_height(Tree') = 1
                 /\ stats'.height = 1
       /\ InsertStep =>
              (btree_height(Tree') = btree_height(Tree) + 1
                   <=> nodes[root].num_keys = order - 1)
       /\ (InsertStep /\ nodes[root].num_keys = order - 1) =>
              /\ root' \notin DOMAIN nodes
              /\ ~nodes'[root'].is_leaf
              /\ nodes'[root'].num_keys = 1
              /\ nodes'[root'].children[0] = root
              /\ nodes'[root'].children[1] \notin DOMAIN nodes
              /\ nodes'[root'].children[1] # root'
              /\ nodes'[root'].keys[0] = nodes[root].keys[split_mid]
              /\ nodes'[root].num_keys \in {split_mid, split_mid + 1}
              /\ stats'.splits >= stats.splits + 1
       /\ (InsertStep /\ nodes[root].num_keys # order - 1) => root' = root]_vars

\* C28 witness: the insert of a key that exists already found the root full
\* and the tree grew to two levels.
C28_Witness ==
    /\ last.op = "insert"
    /\ last.had
    /\ ninserts = order
    /\ stats.insert_ops = order
    /\ stats.splits = 1
    /\ btree_height(Tree) = 2
    /\ stats.height = 2

\* the pairs <<P, i>> of a parent that is not full and the index of a child
\* of it that is full: the places where a descent can call split_child
SplitPlaces ==
    { pi \in Internal(nodes, root) \X (0..MaxOrder) :
        /\ pi[2] <= nodes[pi[1]].num_keys
        /\ nodes[pi[1]].num_keys < order - 1
        /\ nodes[nodes[pi[1]].children[pi[2]]].num_keys = order - 1 }

\* what the claim says of split_child(tree, P, i, C): T is the tree before
\* and r what split_child returns
SplitConserves(T, P, i, r) ==
    LET mid == (order - 1) \div 2
        Cid == T.nodes[P].children[i]
        C   == T.nodes[Cid]
        P0  == T.nodes[P]
        P1  == r.T.nodes[P]
        C1  == r.T.nodes[Cid]
        Rid == P1.children[i + 1]
        R   == r.T.nodes[Rid]
    IN /\ r.status = BTREE_OK
       /\ Rid \notin DOMAIN T.nodes
       /\ DOMAIN r.T.nodes = DOMAIN T.nodes \cup {Rid}
       /\ \A m \in DOMAIN T.nodes \ {P, Cid} : r.T.nodes[m] = T.nodes[m]
       /\ C1.num_keys = mid
       /\ \A j \in 0..(mid - 1) : C1.keys[j] = C.keys[j]
       /\ P1.keys[i] = C.keys[mid]
       /\ R.num_keys = order - 2 - mid
       /\ \A j \in 0..(R.num_keys - 1) : R.keys[j] = C.keys[mid + 1 + j]
       /\ R.is_leaf = C.is_leaf
       /\ C1.is_leaf = C.is_leaf
       /\ C.is_leaf =>
             /\ \A j \in 0..(mid - 1) : C1.values[j] = C.values[j]
             /\ \A j \in 0..(R.num_keys - 1) : R.values[j] = C.values[mid + 1 + j]
       /\ ~C.is_leaf =>
             /\ \A j \in 0..mid : C1.children[j] = C.children[j]
             /\ \A j \in 0..R.num_keys : R.children[j] = C.children[mid + 1 + j]
       /\ P1.num_keys = P0.num_keys + 1
       /\ ~P1.is_leaf
       /\ \A j \in 0..(P0.num_keys - 1) :
             P1.keys[IF j < i THEN j ELSE j + 1] = P0.keys[j]
       /\ \A j \in 0..P0.num_keys :
             P1.children[IF j <= i THEN j ELSE j + 1] = P0.children[j]
       /\ r.T.stats.node_count = T.stats.node_count + 1
       /\ r.T.stats.splits = T.stats.splits + 1
       /\ r.T.stats.key_count = T.stats.key_count
       /\ r.T.root = T.root

\* C29: every split of a full child C at index i of a non-full parent P
\* conserves keys: with mid = (order-1)/2, C keeps its mid smallest keys,
\* C.keys[mid] becomes P.keys[i], the new right sibling R is installed at
\* P.children[i+1] and receives the remaining order-2-mid keys with their
\* values (leaf) or the children from mid+1 on (internal), P's other keys
\* and children keep their relative order, and node_count and splits each
\* grow by exactly one.
C29_SplitConserves ==
    \A pi \in SplitPlaces :
        SplitConserves(Tree, pi[1], pi[2],
                       split_child(Tree, pi[1], pi[2], nodes[pi[1]].children[pi[2]]))

\* C29 witness: a tree in which a full internal node is the child, not the
\* last one, of a parent that is not full and holds a key to be shifted.
C29_Witness ==
    \E pi \in SplitPlaces :
        /\ ~nodes[nodes[pi[1]].children[pi[2]]].is_leaf
        /\ pi[2] < nodes[pi[1]].num_keys

\* C29 witness of the other case: a full leaf to be split under a parent.
C29_WitnessLeaf ==
    \E pi \in SplitPlaces :
        /\ nodes[nodes[pi[1]].children[pi[2]]].is_leaf
        /\ pi[2] < nodes[pi[1]].num_keys

\* the keys of node n are strictly increasing
StrictlyIncreasing(n) == \A i \in 1..(n.num_keys - 1) : n.keys[i - 1] < n.keys[i]

\* C30: the in-node binary search, for any node with strictly increasing
\* keys (the empty node included) and any query key: if the key is present
\* it reports found with the index i where keys[i] equals the key;
\* otherwise it reports not found with an index in [0, num_keys] equal to
\* the number of keys smaller than the query (the index of the first
\* greater key, or num_keys).
C30_BinarySearch ==
    (last.op = "binary_search" /\ StrictlyIncreasing(nodes[root])) =>
        LET n == nodes[root]
            present == \E i \in 0..(n.num_keys - 1) : n.keys[i] = last.key
            smaller == { i \in 0..(n.num_keys - 1) : n.keys[i] < last.key }
        IN IF present
           THEN /\ last.had
                /\ last.value \in 0..(n.num_keys - 1)
                /\ n.keys[last.value] = last.key
           ELSE /\ ~last.had
                /\ last.value \in 0..n.num_keys
                /\ last.value = Cardinality(smaller)
                /\ \A i \in 0..(n.num_keys - 1) :
                      n.keys[i] > last.key <=> i >= last.value

\* C30 witness: the last key of a full-length increasing node is found.
C30_Witness ==
    /\ last.op = "binary_search" /\ StrictlyIncreasing(nodes[root])
    /\ nodes[root].num_keys = MaxSearchLen
    /\ last.had /\ last.value = nodes[root].num_keys - 1

\* C30 witness of a miss between two keys of an increasing node.
C30_WitnessMiss ==
    /\ last.op = "binary_search" /\ StrictlyIncreasing(nodes[root])
    /\ ~last.had /\ last.value \in 1..(nodes[root].num_keys - 1)

\* C30 witness of the empty node: not found, index 0.
C30_WitnessEmpty ==
    /\ last.op = "binary_search" /\ nodes[root].num_keys = 0
    /\ ~last.had /\ last.value = 0

\* the number of keys physically stored in the nodes of the tree
StoredKeys(ns, rt) == SumKeys(ns, Reach(ns, rt))

\* C31: while no delete has been called since creation, key_count equals
\* the sum of num_keys over all nodes of the tree (leaf entries plus
\* separators), before and after every step; an insert that returns ok
\* changes both by the same amount, 0 or 1, whether it splits nodes or not.
C31_KeyCountIsStored ==
    [][nqueries' = 0 =>
          /\ stats.key_count = StoredKeys(nodes, root)
          /\ stats'.key_count = StoredKeys(nodes', root')
          /\ (InsertStep /\ last'.status = BTREE_OK) =>
                /\ stats'.key_count - stats.key_count \in {0, 1}
                /\ StoredKeys(nodes', root') - StoredKeys(nodes, root)
                       = stats'.key_count - stats.key_count]_vars

\* C31 witness: no delete was called and an insert that split a node has
\* left separators and leaf entries in the tree.
C31_Witness ==
    /\ nqueries = 0 /\ last.op = "insert" /\ last.status = BTREE_OK
    /\ stats.splits >= 1
    /\ stats.key_count = last.size_before + 1
    /\ StoredKeys(nodes, root) >= 3
    /\ \E n \in Internal(nodes, root) : nodes[n].num_keys >= 1

\* C31 witness of the other amount: an insert that changed nothing in size.
C31_WitnessUpdate ==
    /\ nqueries = 0 /\ last.op = "insert" /\ last.status = BTREE_OK
    /\ stats.key_count = last.size_before /\ stats.key_count >= 1

\* node_count and height as stored agree with the nodes of the tree
CountersMirror(ns, rt, st) ==
    /\ st.node_count = Cardinality(Reach(ns, rt))
    /\ st.height = calculate_height(ns, rt)
    /\ PathLengths(ns, rt) = {st.height}

\* the relation between the stored counters that a stats_reset gives up
CountersRelated(st) == st.node_count = st.splits + st.height

\* C32: the stored structural counters mirror the live structure: before
\* and after every operation, inserts that fail for lack of memory
\* included, stats.node_count is the number of nodes reachable from the root
\* and stats.height the root-to-leaf path length; node_count = splits +
\* height holds at creation, after a clear, and after every operation
\* other than stats_reset that starts where it holds.
C32_CountersMirror ==
    [][/\ CountersMirror(nodes, root, stats)
       /\ CountersMirror(nodes', root', stats')
       /\ last.op = "create" => CountersRelated(stats)
       /\ last'.op = "clear" => CountersRelated(stats')
       /\ (last'.op # "stats_reset" /\ CountersRelated(stats)) =>
              CountersRelated(stats')]_vars

\* C32 witness: an insert has failed for lack of memory after it had put a
\* new root above the full one, and the counters agree with the two levels
\* that are left.
C32_Witness ==
    /\ last.op = "insert" /\ last.status = BTREE_ERROR_NOMEM
    /\ nodes[root].num_keys = 0 /\ ~nodes[root].is_leaf
    /\ stats.splits = 0 /\ stats.height = 2 /\ stats.node_count = 2
    /\ CountersMirror(nodes, root, stats) /\ CountersRelated(stats)

\* C32 witness of the exception: after a stats_reset the relation is gone.
C32_WitnessReset ==
    /\ last.op = "stats_reset" /\ stats.node_count >= 3
    /\ CountersMirror(nodes, root, stats) /\ ~CountersRelated(stats)

\* the cursor stands on a key of the node at the end of its path
InsideLeaf(c) ==
    /\ c.depth >= 0
    /\ c.path[c.depth] \in DOMAIN nodes
    /\ nodes[c.path[c.depth]].is_leaf
    /\ 0 <= c.positions[c.depth]
    /\ c.positions[c.depth] < nodes[c.path[c.depth]].num_keys

C34_WitnessLast ==
    /\ cursor.valid /\ last.op = "cursor_last"
    /\ cursor.depth >= 1 /\ cursor.positions[0] = nodes[root].num_keys

\* the calls that only read the tree
ReadOnlyOps ==
    {"search", "contains", "validate", "height", "size", "stats_get",
     "cursor_first", "cursor_last", "cursor_next", "cursor_create"}

\* C35: read-only operations leave the structure alone: search, contains,
\* validate, height, size, stats_get and every cursor operation change no
\* node's keys, values, children or num_keys and do not change key_count,
\* node_count, height or splits; search and contains may change only
\* search_ops, node_visits and comparisons.
C35_ReadOnlyFrame ==
    [][last'.op \in ReadOnlyOps =>
          /\ nodes' = nodes
          /\ root' = root
          /\ stats'.key_count = stats.key_count
          /\ stats'.node_count = stats.node_count
          /\ stats'.height = stats.height
          /\ stats'.splits = stats.splits
          /\ last'.op \in {"search", "contains"} =>
                [stats' EXCEPT !.search_ops = stats.search_ops,
                               !.node_visits = stats.node_visits,
                               !.comparisons = stats.comparisons] = stats]_vars

\* C35 witness: a search has gone down two levels of a tree and has counted
\* itself, its visits and its comparisons.
C35_Witness ==
    /\ last.op = "search" /\ stats.search_ops = 1
    /\ stats.node_visits >= ninserts + 2 /\ stats.splits >= 1
    /\ stats.height = 2 /\ btree_height(Tree) = 2

\* C35 witness of a cursor operation: cursor_next has moved to another leaf.
C35_WitnessCursor ==
    /\ last.op = "cursor_next" /\ last.status = BTREE_OK
    /\ cursor.depth >= 1 /\ cursor.positions[0] >= 1

\* C36: key_count never wraps below zero: after any sequence of inserts and
\* deletes (deleting the same contained key several times included), the
\* unsigned 64-bit value returned by size(tree) is at most the number of
\* keys physically stored in the tree's nodes.  A negative holder stands for
\* a value of 2^64 minus a small number, above any number of stored keys.
C36_SizeNeverWraps ==
    /\ btree_size(Tree) >= 0
    /\ btree_size(Tree) <= StoredKeys(nodes, root)

\* every node on the path of a positioned cursor is a node of the tree
PathLive(ns, rt, c) ==
    \A d \in 0..c.depth : c.path[d] \in Reach(ns, rt)

\* C37: interleaving inserts with cursor steps never leaves a cursor holding
\* a released node: an insert, successful or failed, and a delete keep
\* every node of the tree in place, a node of the tree and of the same
\* kind, so every node on a positioned cursor's path is a live node of the
\* tree before and after every step; a step that takes a node out of the
\* tree is a clear.
C37_CursorPathLive ==
    [][/\ PathLive(nodes, root, cursor)
       /\ PathLive(nodes', root', cursor')
       /\ last'.op \in {"insert", "delete"} =>
             /\ Reach(nodes, root) \subseteq Reach(nodes', root')
             /\ \A n \in DOMAIN nodes :
                   /\ n \in DOMAIN nodes'
                   /\ nodes'[n].is_leaf = nodes[n].is_leaf
       /\ ~(Reach(nodes, root) \subseteq Reach(nodes', root')) =>
             last'.op = "clear"]_vars

\* C37 witness: the cursor was positioned on the root leaf, inserts have
\* since split that leaf and put a new root above it, and the cursor has
\* stepped on: its path starts at a node that is no longer the root.
C37_Witness ==
    /\ cursor.depth >= 0 /\ cursor.path[0] # root
    /\ cursor.path[0] \in Reach(nodes, root)
    /\ last.op = "cursor_next"
    /\ stats.splits >= 1

\* C37 witness of the failed insert: it has put up a new root while the
\* cursor stood on the old one.
C37_WitnessFailed ==
    /\ cursor.depth >= 0 /\ cursor.path[0] # root
    /\ last.op = "insert" /\ last.status = BTREE_ERROR_NOMEM

====
